---- MODULE Spec2Model ----
(***************************************************************************)
(* TopRacer geographic quiz: the QuizEngine of assets/js/script.js (data   *)
(* loading, question generation, scoring, session counters) and the        *)
(* QuizUI controller that drives it.                                       *)
(*                                                                         *)
(* JavaScript values are modelled as follows.  Strings are TLA+ strings;   *)
(* a missing / undefined / null string field is the empty string (falsy    *)
(* in JavaScript exactly like the values it stands for).  Arrays are       *)
(* sequences.  Numbers are integers; every number the model computes stays *)
(* below 2^31.  Math.random() is a nondeterministic choice.  An answer     *)
(* option is a record: [text |-> s] for the string s of a text option,     *)
(* [name, flag, alt] for the object of a flag option.                      *)
(***************************************************************************)
EXTENDS Integers, Sequences, FiniteSets, TLC

VARIABLES
  \* ---- QuizEngine fields (script.js 18-35) ----
  countries,                \* this.countries
  currentQuestion,          \* this.currentQuestion (NoQuestion models null)
  score,                    \* this.score
  wrong,                    \* this.wrong
  streak,                   \* this.streak
  questionNumber,           \* this.questionNumber
  totalQuestions,           \* this.totalQuestions
  difficulty,               \* this.difficulty
  answeredCurrentQuestion,  \* this.answeredCurrentQuestion
  apiKey,                   \* this.apiKey
  enableNinja,              \* ENABLE_NINJA_API (script.js 11)
  \* ---- the running init() call (script.js 40-121) ----
  pc,                       \* position of init()
  subset,                   \* const subset (script.js 66)
  i,                        \* loop variable i (script.js 71), 0-based
  inFlight,                 \* HTTP requests issued and not yet completed
  log,                      \* observable events of init(), in order
  initResult,               \* value init() resolved to ("pending" before)
  \* ---- the last engine call and what it returned ----
  ret,
  \* ---- the page: QuizUI's fields and the elements it drives ----
  ui

engineVars == <<countries, currentQuestion, score, wrong, streak, questionNumber,
                totalQuestions, difficulty, answeredCurrentQuestion, apiKey,
                enableNinja>>
loadVars == <<pc, subset, i, inFlight, log, initResult>>
vars == <<countries, currentQuestion, score, wrong, streak, questionNumber,
          totalQuestions, difficulty, answeredCurrentQuestion, apiKey,
          enableNinja, pc, subset, i, inFlight, log, initResult, ret, ui>>

-----------------------------------------------------------------------------
(* Bounds of the model *)

\* number of names of countryList that the model keeps (the source has 83)
CountryListLen == 3
\* questions per session; the constructor sets 10 (script.js 26)
TotalQuestions == 2
\* checkAnswer is followed while score + wrong is below this
MaxPoints == 7
\* normalizePopulation is applied to the whole numbers from -MaxSmallPopulation
\* to MaxSmallPopulation, and to the values of PopulationInputs
MaxSmallPopulation == 60
\* the largest number of countries a bulk answer holds when the pool of a
\* difficulty is taken (the caps are 30, 50, 100 and 200)
MaxLoaded == 202

(* Program constants *)
NINJA_API_KEY == "yMeX7KaoDI7emt/c2uGp8w==7cVk5dAOuVFMhPIN"
NINJA_RATE_DELAY_MS == 1100
NINJA_MAX_INITIAL == 10

\* this.currentQuestion = null
NoQuestion == [type |-> "null"]

-----------------------------------------------------------------------------
(* Generic helpers standing for JavaScript built-ins *)

Min(a, b) == IF a < b THEN a ELSE b

\* Array.prototype.slice(0, n)
Slice0(arr, n) == SubSeq(arr, 1, Min(n, Len(arr)))

\* Array.prototype.includes
Includes(arr, x) == \E k \in 1..Len(arr) : arr[k] = x

\* Array.prototype.splice(idx, 1): the array without its idx-th element (1-based)
Splice(arr, idx) == SubSeq(arr, 1, idx - 1) \o SubSeq(arr, idx + 1, Len(arr))

\* Array.prototype.flatMap / flat over a sequence of sequences
RECURSIVE Flat(_)
Flat(ss) == IF ss = <<>> THEN <<>> ELSE Head(ss) \o Flat(Tail(ss))

\* [...new Set(arr)]: first occurrences, in order
RECURSIVE Dedupe(_)
Dedupe(arr) ==
  IF arr = <<>> THEN <<>>
  ELSE LET init == Dedupe(SubSeq(arr, 1, Len(arr) - 1))
           last == arr[Len(arr)]
       IN IF Includes(init, last) THEN init ELSE Append(init, last)

\* [arr[a], arr[b]] = [arr[b], arr[a]]
Swap(arr, a, b) == [arr EXCEPT ![a] = arr[b], ![b] = arr[a]]

\* shuffleArray (Fisher-Yates): the set of arrays the loop can produce.
\* k is the 1-based position that the code's i indexes (i = k - 1).
RECURSIVE ShuffleFrom(_, _)
ShuffleFrom(arr, k) ==
  IF k <= 1 THEN {arr}
  ELSE UNION { ShuffleFrom(Swap(arr, k, j), k - 1) : j \in 1..k }

shuffleArray(array) == ShuffleFrom(array, Len(array))

-----------------------------------------------------------------------------
(* Static tables of the engine *)

\* const countryList (script.js 49-61)
countryListAll == <<
  "United States", "China", "India", "Brazil", "Russia", "Japan", "Germany",
  "United Kingdom", "France", "Italy", "Canada", "South Korea", "Spain",
  "Australia", "Mexico", "Indonesia", "Netherlands", "Saudi Arabia", "Turkey",
  "Switzerland", "Poland", "Belgium", "Sweden", "Argentina", "Norway", "Austria",
  "United Arab Emirates", "Ireland", "Israel", "Singapore", "Denmark",
  "South Africa", "Egypt", "Philippines", "Pakistan", "Vietnam", "Bangladesh",
  "Chile", "Colombia", "Finland", "Portugal", "Greece", "New Zealand", "Peru",
  "Czech Republic", "Romania", "Iraq", "Qatar", "Kazakhstan", "Hungary", "Kuwait",
  "Morocco", "Ukraine", "Ethiopia", "Kenya", "Ecuador", "Guatemala", "Tanzania",
  "Panama", "Croatia", "Lithuania", "Slovenia", "Serbia", "Ghana", "Tunisia",
  "Bolivia", "Paraguay", "Uganda", "Latvia", "Estonia", "Nepal", "Iceland",
  "Cambodia", "Cyprus", "Zimbabwe", "Zambia", "Albania", "Mozambique", "Jamaica",
  "Malta", "Mongolia", "Armenia", "Nicaragua" >>

\* const countryCodes (script.js 215-242), as a set of <<name, code>> pairs
countryCodes == {
  <<"United States", "us">>, <<"China", "cn">>, <<"India", "in">>,
  <<"Brazil", "br">>, <<"Russia", "ru">>, <<"Japan", "jp">>, <<"Germany", "de">>,
  <<"United Kingdom", "gb">>, <<"France", "fr">>, <<"Italy", "it">>,
  <<"Canada", "ca">>, <<"South Korea", "kr">>, <<"Spain", "es">>,
  <<"Australia", "au">>, <<"Mexico", "mx">>, <<"Indonesia", "id">>,
  <<"Netherlands", "nl">>, <<"Saudi Arabia", "sa">>, <<"Turkey", "tr">>,
  <<"Switzerland", "ch">>, <<"Poland", "pl">>, <<"Belgium", "be">>,
  <<"Sweden", "se">>, <<"Argentina", "ar">>, <<"Norway", "no">>,
  <<"Austria", "at">>, <<"United Arab Emirates", "ae">>, <<"Ireland", "ie">>,
  <<"Israel", "il">>, <<"Singapore", "sg">>, <<"Denmark", "dk">>,
  <<"South Africa", "za">>, <<"Egypt", "eg">>, <<"Philippines", "ph">>,
  <<"Pakistan", "pk">>, <<"Vietnam", "vn">>, <<"Bangladesh", "bd">>,
  <<"Chile", "cl">>, <<"Colombia", "co">>, <<"Finland", "fi">>,
  <<"Portugal", "pt">>, <<"Greece", "gr">>, <<"New Zealand", "nz">>,
  <<"Peru", "pe">>, <<"Czech Republic", "cz">>, <<"Romania", "ro">>,
  <<"Iraq", "iq">>, <<"Qatar", "qa">>, <<"Kazakhstan", "kz">>, <<"Hungary", "hu">>,
  <<"Kuwait", "kw">>, <<"Morocco", "ma">>, <<"Ukraine", "ua">>,
  <<"Ethiopia", "et">>, <<"Kenya", "ke">>, <<"Ecuador", "ec">>,
  <<"Dominican Republic", "do">>, <<"Guatemala", "gt">>, <<"Oman", "om">>,
  <<"Venezuela", "ve">>, <<"Luxembourg", "lu">>, <<"Bulgaria", "bg">>,
  <<"Costa Rica", "cr">>, <<"Uruguay", "uy">>, <<"Croatia", "hr">>,
  <<"Tanzania", "tz">>, <<"Lithuania", "lt">>, <<"Slovenia", "si">>,
  <<"Serbia", "rs">>, <<"Ghana", "gh">>, <<"Jordan", "jo">>, <<"Tunisia", "tn">>,
  <<"Bolivia", "bo">>, <<"Ivory Coast", "ci">>, <<"Paraguay", "py">>,
  <<"Libya", "ly">>, <<"Uganda", "ug">>, <<"Panama", "pa">>, <<"Latvia", "lv">>,
  <<"Estonia", "ee">>, <<"Nepal", "np">>, <<"Cameroon", "cm">>,
  <<"Bahrain", "bh">>, <<"Honduras", "hn">>, <<"Iceland", "is">>,
  <<"Trinidad and Tobago", "tt">>, <<"Senegal", "sn">>, <<"Cambodia", "kh">>,
  <<"Cyprus", "cy">>, <<"Zimbabwe", "zw">>, <<"Papua New Guinea", "pg">>,
  <<"Zambia", "zm">>, <<"Albania", "al">>, <<"Mozambique", "mz">>,
  <<"Botswana", "bw">>, <<"Gabon", "ga">>, <<"Jamaica", "jm">>, <<"Malta", "mt">>,
  <<"Mauritius", "mu">>, <<"Brunei", "bn">>, <<"Mongolia", "mn">>,
  <<"Armenia", "am">>, <<"Namibia", "na">>, <<"Madagascar", "mg">>,
  <<"Nicaragua", "ni">>, <<"Macedonia", "mk">>, <<"Burkina Faso", "bf">>,
  <<"Mali", "ml">>, <<"Bahamas", "bs">>, <<"Haiti", "ht">>, <<"Benin", "bj">>,
  <<"Rwanda", "rw">>, <<"Niger", "ne">>, <<"Guinea", "gn">>, <<"Malawi", "mw">>,
  <<"Tajikistan", "tj">>, <<"Montenegro", "me">>, <<"Kosovo", "xk">>,
  <<"Kyrgyzstan", "kg">>, <<"Moldova", "md">>, <<"Barbados", "bb">>,
  <<"Fiji", "fj">>, <<"Togo", "tg">>, <<"Liberia", "lr">>, <<"Mauritania", "mr">>,
  <<"Suriname", "sr">>, <<"Maldives", "mv">>, <<"Guyana", "gy">> }

\* the names init() draws its subset from, cut to the model's bound
countryList == SubSeq(countryListAll, 1, Min(CountryListLen, Len(countryListAll)))

\* getCountryCode: countryCodes[countryName] || 'un'
getCountryCode(countryName) ==
  IF \E p \in countryCodes : p[1] = countryName
    THEN (CHOOSE p \in countryCodes : p[1] = countryName)[2]
    ELSE "un"

\* this.difficultySettings; popularOnly and countries of each level
difficultySettings ==
  [easy   |-> [countries |-> 30,  popularOnly |-> TRUE],
   medium |-> [countries |-> 100, popularOnly |-> FALSE],
   hard   |-> [countries |-> 200, popularOnly |-> FALSE]]

\* what an out-of-range index or an absent property evaluates to
Undefined == "undefined"

\* JavaScript truthiness of a string-or-undefined value
Truthy(s) == s /= "" /\ s /= Undefined

\* arr[k - 1] of JavaScript (k is 1-based here)
At(arr, k) == IF k >= 1 /\ k <= Len(arr) THEN arr[k] ELSE Undefined

-----------------------------------------------------------------------------
(* What the two upstream sources can answer (the model's inputs) *)

NullValue == [type |-> "null", n |-> 0, text |-> ""]
Num(n) == [type |-> "number", n |-> n, text |-> ""]
Str(text) == [type |-> "string", n |-> 0, text |-> text]

\* One element of the primary source's result array.  "" stands for an
\* absent field; currency is an object {name}, a string, or absent;
\* languages is an array, a comma-delimited string, or absent.
NinjaFull(countryName) ==
  CASE countryName = "United States" ->
         [name |-> "United States", capital |-> "Washington, D.C.",
          population |-> Num(20), surface_area |-> 9834, region |-> "Americas",
          currency |-> [kind |-> "object", name |-> "US Dollar"],
          languages |-> [kind |-> "array", text |-> "", items |-> <<"English">>],
          timezone |-> "UTC-05:00", gdp |-> 0]
    [] countryName = "China" ->
         [name |-> "China", capital |-> "Beijing",
          population |-> Str("16,000"),
          surface_area |-> 9597, region |-> "Asia",
          currency |-> [kind |-> "string", name |-> "Yuan Renminbi"],
          languages |-> [kind |-> "string", text |-> "Mandarin, Cantonese", items |-> <<>>],
          timezone |-> "UTC+08:00", gdp |-> 0]
    [] countryName = "India" ->
         [name |-> "India", capital |-> "New Delhi",
          population |-> Num(18), surface_area |-> 3287, region |-> "Asia",
          currency |-> [kind |-> "object", name |-> "Indian Rupee"],
          languages |-> [kind |-> "array", text |-> "", items |-> <<"Hindi", "English">>],
          timezone |-> "UTC+05:30", gdp |-> 0]
    [] countryName = "Brazil" ->
         [name |-> "Brazil", capital |-> "Brasilia",
          population |-> Num(10000), surface_area |-> 8516, region |-> "Americas",
          currency |-> [kind |-> "object", name |-> "Brazilian Real"],
          languages |-> [kind |-> "array", text |-> "", items |-> <<"Portuguese">>],
          timezone |-> "UTC-03:00", gdp |-> 0]
    [] OTHER ->
         [name |-> countryName, capital |-> "Moscow",
          population |-> Num(15), surface_area |-> 17098, region |-> "Europe",
          currency |-> [kind |-> "object", name |-> "Russian Ruble"],
          languages |-> [kind |-> "array", text |-> "", items |-> <<"Russian">>],
          timezone |-> "UTC+03:00", gdp |-> 0]

\* a result element that carries no facts at all
NinjaSparse ==
  [name |-> "", capital |-> "", population |-> NullValue, surface_area |-> 0,
   region |-> "", currency |-> [kind |-> "absent", name |-> ""],
   languages |-> [kind |-> "absent", text |-> "", items |-> <<>>],
   timezone |-> "", gdp |-> 0]

\* JSON bodies of a successful primary-source response for one name
NinjaBodies(countryName) ==
  { [isArray |-> FALSE, items |-> <<>>],
    [isArray |-> TRUE, items |-> <<>>],
    [isArray |-> TRUE, items |-> <<NinjaFull(countryName)>>],
    [isArray |-> TRUE, items |-> <<NinjaSparse>>] }

\* how one HTTP request can end: fetch() rejects, the response is not ok,
\* or the response is ok and carries a body
FailedOutcomes ==
  { [kind |-> "network_error", body |-> <<>>], [kind |-> "http_error", body |-> <<>>] }

NinjaOutcomes(countryName) ==
  FailedOutcomes \cup { [kind |-> "ok", body |-> b] : b \in NinjaBodies(countryName) }

\* Elements of the secondary source's bulk answer.  capital, languages,
\* currencies and timezones are given by their values; an absent property
\* is the empty sequence.
RestTuvalu ==
  [common |-> "Tuvalu", capital |-> <<"Funafuti">>, population |-> 11792,
   area |-> 26, region |-> "Oceania", languages |-> <<"English", "Tuvaluan">>,
   currencies |-> <<"Australian dollar", "Tuvaluan dollar">>,
   timezones |-> <<"UTC+12:00">>,
   png |-> "https://flagcdn.com/w320/tv.png", svg |-> "", alt |-> ""]
RestNauru ==
  [common |-> "Nauru", capital |-> <<"Yaren">>, population |-> 10834,
   area |-> 21, region |-> "Oceania", languages |-> <<"English", "Nauru">>,
   currencies |-> <<"Australian dollar">>, timezones |-> <<"UTC+12:00">>,
   png |-> "https://flagcdn.com/w320/nr.png", svg |-> "",
   alt |-> "The flag of Nauru has a dark blue field"]
RestTokelau ==
  [common |-> "Tokelau", capital |-> <<"Fakaofo">>, population |-> 1411,
   area |-> 12, region |-> "Oceania", languages |-> <<"English", "Samoan">>,
   currencies |-> <<"New Zealand dollar">>, timezones |-> <<"UTC+13:00">>,
   png |-> "", svg |-> "https://flagcdn.com/tk.svg", alt |-> ""]
RestAntarctica ==
  [common |-> "Antarctica", capital |-> <<>>, population |-> 1000,
   area |-> 14000000, region |-> "", languages |-> <<>>,
   currencies |-> <<>>, timezones |-> <<>>,
   png |-> "", svg |-> "", alt |-> ""]
RestBouvet ==
  [common |-> "Bouvet Island", capital |-> <<>>, population |-> 0,
   area |-> 49, region |-> "Antarctic", languages |-> <<"Norwegian">>,
   currencies |-> <<>>, timezones |-> <<"UTC+01:00">>,
   png |-> "https://flagcdn.com/w320/bv.png", svg |-> "", alt |-> ""]

\* JSON bodies of a successful secondary-source response
RestBodies ==
  { <<RestTokelau, RestBouvet, RestTuvalu, RestAntarctica, RestNauru>>,
    <<RestNauru, RestTuvalu>>,
    <<RestBouvet>> }

RestOutcomes ==
  FailedOutcomes \cup { [kind |-> "ok", body |-> b] : b \in RestBodies }

-----------------------------------------------------------------------------
(* String built-ins *)

Char(s, k) == SubSeq(s, k, k)

IsDigit(c) == c \in {"0", "1", "2", "3", "4", "5", "6", "7", "8", "9"}

DigitValue(c) ==
  CASE c = "0" -> 0 [] c = "1" -> 1 [] c = "2" -> 2 [] c = "3" -> 3 [] c = "4" -> 4
    [] c = "5" -> 5 [] c = "6" -> 6 [] c = "7" -> 7 [] c = "8" -> 8 [] c = "9" -> 9

\* value.replace(/[,\s]/g, '')
RECURSIVE StripSeparators(_)
StripSeparators(s) ==
  IF s = "" THEN ""
  ELSE LET c == Char(s, 1)
           rest == StripSeparators(SubSeq(s, 2, Len(s)))
       IN IF c = "," \/ c = " " THEN rest ELSE c \o rest

\* the value of the longest run of digits that starts s, after acc
RECURSIVE DigitsValue(_, _)
DigitsValue(s, acc) ==
  IF s = "" \/ ~IsDigit(Char(s, 1)) THEN acc
  ELSE DigitsValue(SubSeq(s, 2, Len(s)), acc * 10 + DigitValue(Char(s, 1)))

\* parseFloat on whole numbers: an optional sign, then digits; NaN when no
\* digit follows.  Trailing text is ignored, as parseFloat does.
parseFloat(s) ==
  LET neg == s /= "" /\ Char(s, 1) = "-"
      pos == s /= "" /\ Char(s, 1) = "+"
      body == IF neg \/ pos THEN SubSeq(s, 2, Len(s)) ELSE s
  IN IF body = "" \/ ~IsDigit(Char(body, 1))
       THEN [nan |-> TRUE, n |-> 0]
       ELSE [nan |-> FALSE,
             n |-> IF neg THEN 0 - DigitsValue(body, 0) ELSE DigitsValue(body, 0)]

\* String.prototype.trim
RECURSIVE Trim(_)
Trim(s) ==
  IF s = "" THEN ""
  ELSE IF Char(s, 1) = " " THEN Trim(SubSeq(s, 2, Len(s)))
  ELSE IF Char(s, Len(s)) = " " THEN Trim(SubSeq(s, 1, Len(s) - 1))
  ELSE s

\* String.prototype.split(','): cur is the piece being read
RECURSIVE SplitFrom(_, _)
SplitFrom(s, cur) ==
  IF s = "" THEN <<cur>>
  ELSE IF Char(s, 1) = "," THEN <<cur>> \o SplitFrom(SubSeq(s, 2, Len(s)), "")
  ELSE SplitFrom(SubSeq(s, 2, Len(s)), cur \o Char(s, 1))

SplitCommas(s) == SplitFrom(s, "")

\* three digits of a group after the first, zero padded
Pad3(n) ==
  IF n < 10 THEN "00" \o ToString(n)
  ELSE IF n < 100 THEN "0" \o ToString(n)
  ELSE ToString(n)

\* Number.prototype.toLocaleString() of a whole number (en-US grouping)
RECURSIVE toLocaleString(_)
toLocaleString(n) ==
  IF n < 0 THEN "-" \o toLocaleString(0 - n)
  ELSE IF n < 1000 THEN ToString(n)
  ELSE toLocaleString(n \div 1000) \o "," \o Pad3(n % 1000)

\* Math.round(x / d) for whole x >= 0 and d > 0 (ties go up)
RoundDiv(x, d) == (x \div d) + (IF 2 * (x % d) >= d THEN 1 ELSE 0)

\* two digits, zero padded
Pad2(n) == IF n < 10 THEN "0" \o ToString(n) ELSE ToString(n)

\* (x / unit).toFixed(2), (x / unit).toFixed(1), (x / unit).toFixed(0)
ToFixed2(x, unit) ==
  LET h == RoundDiv(x, unit \div 100)
  IN ToString(h \div 100) \o "." \o Pad2(h % 100)
ToFixed1(x, unit) ==
  LET t == RoundDiv(x, unit \div 10)
  IN ToString(t \div 10) \o "." \o ToString(t % 10)
ToFixed0(x, unit) == ToString(RoundDiv(x, unit))

-----------------------------------------------------------------------------
(* Country Data Provider: mapping of upstream records *)

\* normalizePopulation(value)
normalizePopulation(value) ==
  IF value.type = "null" THEN 0
  ELSE IF value.type = "string" /\ parseFloat(StripSeparators(value.text)).nan THEN 0
  ELSE IF value.type \notin {"string", "number"} THEN 0
  ELSE LET n == IF value.type = "string"
                  THEN parseFloat(StripSeparators(value.text)).n
                  ELSE value.n
       IN IF n >= 1000000 THEN n
          ELSE IF n < 10 THEN n * 1000000
          ELSE IF n < 10000 THEN n * 1000
          ELSE n

\* .map(s => s.trim()).filter(Boolean)
RECURSIVE TrimAndDropEmpty(_)
TrimAndDropEmpty(pieces) ==
  IF pieces = <<>> THEN <<>>
  ELSE LET t == Trim(Head(pieces))
       IN (IF t = "" THEN <<>> ELSE <<t>>) \o TrimAndDropEmpty(Tail(pieces))

\* const languages of mapNinjaCountry (script.js 128-132)
NinjaLanguages(raw) ==
  IF raw.kind = "array" THEN raw.items
  ELSE IF raw.kind = "string" /\ Len(raw.text) > 0
    THEN TrimAndDropEmpty(SplitCommas(raw.text))
  ELSE <<"Unknown">>

\* const currencyName of mapNinjaCountry (script.js 133)
NinjaCurrencyName(raw) ==
  IF raw.kind = "object" /\ Truthy(raw.name) THEN raw.name
  ELSE IF raw.kind = "string" THEN raw.name
  ELSE "Unknown"

\* the object mapNinjaCountry returns for data[0] = country
NinjaRecord(country, countryName) ==
  LET normalizedPopulation == normalizePopulation(country.population)
      currencyName == NinjaCurrencyName(country.currency)
  IN [name |-> IF Truthy(country.name) THEN country.name ELSE countryName,
      capital |-> IF Truthy(country.capital) THEN country.capital ELSE "N/A",
      population |-> normalizedPopulation,
      area |-> country.surface_area,
      region |-> IF Truthy(country.region) THEN country.region ELSE "Unknown",
      currencies |-> IF Truthy(currencyName) THEN <<currencyName>> ELSE <<"Unknown">>,
      gdp |-> country.gdp,
      languages |-> NinjaLanguages(country.languages),
      timezones |-> <<IF Truthy(country.timezone) THEN country.timezone ELSE "UTC">>,
      flag |-> "https://flagcdn.com/w320/" \o getCountryCode(countryName) \o ".png",
      flagAlt |-> "Flag of " \o countryName,
      popularity |-> normalizedPopulation]

\* mapNinjaCountry(data, countryName): <<>> models the null it returns when
\* data is no array or is empty, <<record>> the mapped record otherwise
mapNinjaCountry(data, countryName) ==
  IF ~data.isArray \/ Len(data.items) = 0 THEN <<>>
  ELSE <<NinjaRecord(data.items[1], countryName)>>

\* the object loadFromRestCountries builds for one element (script.js 162-175)
RestRecord(country) ==
  [name |-> country.common,
   capital |-> IF country.capital /= <<>> THEN country.capital[1] ELSE "N/A",
   population |-> country.population,
   area |-> country.area,
   region |-> IF Truthy(country.region) THEN country.region ELSE "Unknown",
   languages |-> country.languages,
   currencies |-> country.currencies,
   timezones |-> country.timezones,
   flag |-> IF Truthy(country.png) THEN country.png
            ELSE IF Truthy(country.svg) THEN country.svg ELSE "",
   flagAlt |-> IF Truthy(country.alt) THEN country.alt
               ELSE "Flag of " \o country.common,
   gdp |-> 0,
   popularity |-> country.population]

\* data.map(...).filter(c => c.population > 0)
RECURSIVE RestCountries(_)
RestCountries(data) ==
  IF data = <<>> THEN <<>>
  ELSE LET c == RestRecord(Head(data))
       IN (IF c.population > 0 THEN <<c>> ELSE <<>>) \o RestCountries(Tail(data))

\* inserts c into a sequence sorted by descending popularity, after the
\* records that do not rank below it (the sort is stable)
RECURSIVE InsertByPopularity(_, _)
InsertByPopularity(sorted, c) ==
  IF sorted = <<>> THEN <<c>>
  ELSE IF Head(sorted).popularity >= c.popularity
    THEN <<Head(sorted)>> \o InsertByPopularity(Tail(sorted), c)
  ELSE <<c>> \o sorted

\* this.countries.sort((a, b) => b.popularity - a.popularity)
RECURSIVE SortByPopularity(_)
SortByPopularity(arr) ==
  IF arr = <<>> THEN <<>>
  ELSE InsertByPopularity(SortByPopularity(SubSeq(arr, 1, Len(arr) - 1)), arr[Len(arr)])

-----------------------------------------------------------------------------
(* Construction *)

\* the last call made on the engine, its string argument ("" when it takes
\* none) and what it gave back: "question" or "null" for nextQuestion,
\* "correct" or "wrong" for checkAnswer, "threw" when the call ended with a
\* TypeError, "void" otherwise
Return(op, arg, value) == [op |-> op, arg |-> arg, value |-> value]
NoReturn == Return("none", "", "void")

\* the page: bound (bindEvents has run), screen (what the options container
\* shows), this.isAnswered, the answers of the option buttons rendered,
\* whether those buttons are disabled, and nextBtn.disabled.  The hidden
\* attribute of the Next and Restart buttons is written and never read; a
\* click reaches these buttons whether they are shown or not.
Page(bound, screen, isAnswered, optionBtns, optionsDisabled, nextBtnDisabled) ==
  [bound |-> bound, screen |-> screen, isAnswered |-> isAnswered,
   optionBtns |-> optionBtns, optionsDisabled |-> optionsDisabled,
   nextBtnDisabled |-> nextBtnDisabled]

\* the engine used without a page
NoPage == Page(FALSE, "none", FALSE, <<>>, FALSE, FALSE)

\* the fields the QuizEngine constructor sets (script.js 18-35), but for
\* countries; totalQuestions is the model's TotalQuestions.
\* ENABLE_NINJA_API and the key are deployment settings, so every
\* combination of them is an initial state.
Constructed ==
  /\ currentQuestion = NoQuestion
  /\ score = 0
  /\ wrong = 0
  /\ streak = 0
  /\ questionNumber = 0
  /\ totalQuestions = TotalQuestions
  /\ difficulty = "easy"
  /\ answeredCurrentQuestion = FALSE
  /\ apiKey \in {NINJA_API_KEY, ""}
  /\ enableNinja \in BOOLEAN
  /\ ret = NoReturn

InitLoad ==
  /\ Constructed
  /\ countries = <<>>
  /\ pc = "idle"
  /\ subset = <<>>
  /\ i = 0
  /\ inFlight = {}
  /\ log = <<>>
  /\ initResult = "pending"
  /\ ui = NoPage

-----------------------------------------------------------------------------
(* init(): one action per stretch of code between two awaits *)

\* an observable event of init(): a request issued, a response handled (ok:
\* the response was a success and its body was read; records: the country
\* records it added), a progress notification, the end of a sleep
Event(ev, src, name, ok, records, current, total, ms) ==
  [ev |-> ev, src |-> src, name |-> name, ok |-> ok, records |-> records,
   current |-> current, total |-> total, ms |-> ms]

RequestEvent(src, name) == Event("request", src, name, FALSE, 0, 0, 0, 0)
ResponseEvent(src, name, ok, records) == Event("response", src, name, ok, records, 0, 0, 0)
\* new CustomEvent('quizProgress', { detail: { current, total } })
ProgressEvent(current, total) == Event("progress", "", "", FALSE, 0, current, total, 0)
\* the timer of sleep(ms) has fired
SleepEvent(ms) == Event("sleep", "", "", FALSE, 0, 0, 0, ms)

NinjaRequest(name) == [src |-> "ninja", name |-> name]
RestRequest == [src |-> "rest", name |-> ""]

\* !ENABLE_NINJA_API || !this.apiKey
UseRestDirectly == ~enableNinja \/ ~Truthy(apiKey)

\* the loop condition i < subset.length
LoopContinues == i < Len(subset)

\* a loop that never waits between two requests
DelayNeeded_Never == FALSE

\* the condition of the rate limit delay: i < subset.length - 1
DelayNeeded == i < Len(subset) - 1

\* loadFromRestCountries up to its first await: fetch(...) is issued
IssueRest(nextPc) ==
  /\ inFlight' = inFlight \cup {RestRequest}
  /\ log' = Append(log, RequestEvent("rest", ""))
  /\ pc' = nextPc

\* init() is called: the branch at line 45, then either the bulk request or
\* the choice of the subset and the first progress event
InitCall ==
  /\ pc = "idle"
  /\ IF UseRestDirectly
       THEN /\ IssueRest("rest_direct")
            /\ UNCHANGED <<countries, subset, i>>
       ELSE /\ countries' = <<>>
            /\ \E shuffled \in shuffleArray(countryList) :
                 subset' = Slice0(shuffled, NINJA_MAX_INITIAL)
            /\ log' = Append(log, ProgressEvent(0, Len(subset')))
            /\ i' = 0
            /\ pc' = "loop"
            /\ UNCHANGED inFlight
  /\ UNCHANGED <<currentQuestion, score, wrong, streak, questionNumber, totalQuestions,
                 difficulty, answeredCurrentQuestion, apiKey, enableNinja,
                 initResult, ret>>

\* top of a loop pass: fetch(url, ...) for subset[i] is issued (lines 72-78)
IssueFetch ==
  /\ pc = "loop"
  /\ LoopContinues
  /\ inFlight' = inFlight \cup {NinjaRequest(subset[i + 1])}
  /\ log' = Append(log, RequestEvent("ninja", subset[i + 1]))
  /\ pc' = "fetch"
  /\ UNCHANGED <<engineVars, subset, i, initResult, ret>>

\* a loop whose failed fetch loses the records obtained so far
CountriesAfterFetch_DropsOnFailure(outcome, countryName) ==
  IF outcome.kind = "ok"
    THEN countries \o mapNinjaCountry(outcome.body, countryName)
    ELSE <<>>

\* this.countries after the response of one fetch was handled (lines 79-88)
CountriesAfterFetch(outcome, countryName) ==
  IF outcome.kind = "ok"
    THEN countries \o mapNinjaCountry(outcome.body, countryName)
    ELSE countries

\* the number of records a response yields: 1 when mapped is an object,
\* 0 when it is null or the fetch failed (lines 79-88)
RecordsIn(outcome, countryName) ==
  IF outcome.kind = "ok" THEN Len(mapNinjaCountry(outcome.body, countryName)) ELSE 0

\* the fetch of subset[i] ends; the rest of the loop pass up to the sleep
\* (lines 79-93)
CompleteFetch ==
  /\ pc = "fetch"
  /\ \E outcome \in NinjaOutcomes(subset[i + 1]) :
       /\ countries' = CountriesAfterFetch(outcome, subset[i + 1])
       /\ log' = log \o <<ResponseEvent("ninja", subset[i + 1], outcome.kind = "ok",
                                         RecordsIn(outcome, subset[i + 1])),
                           ProgressEvent(i + 1, Len(subset))>>
  /\ inFlight' = inFlight \ {NinjaRequest(subset[i + 1])}
  /\ IF DelayNeeded
       THEN pc' = "sleep" /\ i' = i
       ELSE pc' = "loop" /\ i' = i + 1
  /\ UNCHANGED <<currentQuestion, score, wrong, streak, questionNumber, totalQuestions,
                 difficulty, answeredCurrentQuestion, apiKey, enableNinja,
                 subset, initResult, ret>>

\* the timer of sleep(NINJA_RATE_DELAY_MS) fires; i++ (lines 93, 71)
SleepElapsed ==
  /\ pc = "sleep"
  /\ log' = Append(log, SleepEvent(NINJA_RATE_DELAY_MS))
  /\ i' = i + 1
  /\ pc' = "loop"
  /\ UNCHANGED <<engineVars, subset, inFlight, initResult, ret>>

\* a fallback test that queries the secondary source after every loop
NoRecords_Always == TRUE

\* the fallback test: this.countries.length === 0 (line 99)
NoRecords == Len(countries) = 0

\* the loop is over: the fallback test, or the sort and return true
\* (lines 96-109)
LoopExit ==
  /\ pc = "loop"
  /\ ~LoopContinues
  /\ IF NoRecords
       THEN /\ IssueRest("rest_fallback")
            /\ UNCHANGED <<countries, initResult>>
       ELSE /\ countries' = SortByPopularity(countries)
            /\ initResult' = "true"
            /\ pc' = "done"
            /\ UNCHANGED <<inFlight, log>>
  /\ UNCHANGED <<currentQuestion, score, wrong, streak, questionNumber, totalQuestions,
                 difficulty, answeredCurrentQuestion, apiKey, enableNinja,
                 subset, i, ret>>

\* loadFromRestCountries throws when fetch rejects or the response is not ok
RestThrows(outcome) == outcome.kind /= "ok"

\* the bulk request made inside the try block ends (lines 46 / 101): on
\* success the records are stored, sorted, and init() returns true; on a
\* throw the catch block issues the bulk request again (lines 110-114)
CompleteRest ==
  /\ pc \in {"rest_direct", "rest_fallback"}
  /\ \E outcome \in RestOutcomes :
       IF RestThrows(outcome)
         THEN /\ inFlight' = inFlight
              /\ log' = log \o <<ResponseEvent("rest", "", FALSE, 0), RequestEvent("rest", "")>>
              /\ pc' = "rest_catch"
              /\ UNCHANGED <<countries, initResult>>
         ELSE /\ countries' = SortByPopularity(RestCountries(outcome.body))
              /\ inFlight' = inFlight \ {RestRequest}
              /\ log' = Append(log, ResponseEvent("rest", "", TRUE, Len(countries')))
              /\ initResult' = "true"
              /\ pc' = "done"
  /\ UNCHANGED <<currentQuestion, score, wrong, streak, questionNumber, totalQuestions,
                 difficulty, answeredCurrentQuestion, apiKey, enableNinja,
                 subset, i, ret>>

\* a catch block that reports success whatever the second bulk request did
CatchResult_AlwaysTrue(outcome) == "true"

\* the value init() returns from its catch block (lines 113-119)
CatchResult(outcome) == IF RestThrows(outcome) THEN "false" ELSE "true"

\* the bulk request made inside the catch block ends (lines 113-119)
CompleteRestCatch ==
  /\ pc = "rest_catch"
  /\ \E outcome \in RestOutcomes :
       /\ countries' = IF RestThrows(outcome) THEN countries
                       ELSE RestCountries(outcome.body)
       /\ log' = Append(log, ResponseEvent("rest", "", ~RestThrows(outcome),
                                           IF RestThrows(outcome) THEN 0
                                           ELSE Len(countries')))
       /\ initResult' = CatchResult(outcome)
  /\ inFlight' = inFlight \ {RestRequest}
  /\ pc' = "done"
  /\ UNCHANGED <<currentQuestion, score, wrong, streak, questionNumber, totalQuestions,
                 difficulty, answeredCurrentQuestion, apiKey, enableNinja,
                 subset, i, ret>>

NextLoad ==
  \/ InitCall /\ UNCHANGED ui
  \/ IssueFetch /\ UNCHANGED ui
  \/ CompleteFetch /\ UNCHANGED ui
  \/ SleepElapsed /\ UNCHANGED ui
  \/ LoopExit /\ UNCHANGED ui
  \/ CompleteRest /\ UNCHANGED ui
  \/ CompleteRestCatch /\ UNCHANGED ui

SpecLoad == InitLoad /\ [][NextLoad]_vars

-----------------------------------------------------------------------------
(* Formatting *)

\* formatPopulation(pop)
formatPopulation(pop) ==
  IF pop >= 1000000000 THEN ToFixed2(pop, 1000000000) \o " billion"
  ELSE IF pop >= 1000000 THEN ToFixed1(pop, 1000000) \o " million"
  ELSE toLocaleString(pop)

\* formatArea(area)
formatArea(area) == toLocaleString(area) \o " km2"

\* formatGDP(gdp).  10^12 is written as 1000 * 10^9: gdp >= 10^12 exactly
\* when gdp \div 1000 >= 10^9, and rounding gdp / 10^10 equals rounding
\* (gdp \div 1000) / 10^7.
formatGDP(gdp) ==
  IF gdp \div 1000 >= 1000000000
    THEN "$" \o ToFixed2(gdp \div 1000, 1000000000) \o " trillion"
  ELSE IF gdp >= 1000000000 THEN "$" \o ToFixed1(gdp, 1000000000) \o " billion"
  ELSE IF gdp >= 1000000 THEN "$" \o ToFixed0(gdp, 1000000) \o " million"
  ELSE "$" \o toLocaleString(gdp)

\* Math.floor(x * mult) for a multiplier given in hundredths
FloorTimes(x, hundredths) ==
  (x \div 100) * hundredths + ((x % 100) * hundredths) \div 100

-----------------------------------------------------------------------------
(* Question generation *)

questionTypes ==
  <<"population", "area", "gdp", "capital", "currency", "languages", "timezone", "flag">>

\* an answer option that is a string
Text(s) == [text |-> s]

\* the string an option button hands to handleAnswer: option itself for a
\* text option, item.flag for a flag option (QuizUI 161, 191)
OptionAnswer(type, option) == IF type = "flag" THEN option.flag ELSE option.text

\* const common of generateLanguageOptions (script.js 462-465): the first
\* four of its sixteen entries
common == <<"English", "Spanish", "French", "Arabic">>

\* const commonTimezones of generateTimezoneOptions (script.js 499-507): the
\* first four of its thirty-two entries
commonTimezones == <<"UTC", "UTC+01:00", "UTC+02:00", "UTC+03:00">>

\* a pool that forgets the cap settings.countries of the level
getCountriesForDifficulty_NoCap(all, d) ==
  IF d \in DOMAIN difficultySettings
    THEN IF difficultySettings[d].popularOnly THEN Slice0(all, 50) ELSE all
    ELSE all

\* getCountriesForDifficulty(), for the engine's countries and a difficulty
\* d.  When d is no key of difficultySettings (it can only be a property that
\* every object inherits, see setDifficulty), settings.popularOnly and
\* settings.countries are undefined and slice(0, undefined) keeps everything.
getCountriesForDifficulty(all, d) ==
  IF d \in DOMAIN difficultySettings
    THEN LET settings == difficultySettings[d]
             pool == IF settings.popularOnly THEN Slice0(all, 50) ELSE all
         IN Slice0(pool, settings.countries)
    ELSE all

\* the multipliers of the three numeric categories, in hundredths
populationMultipliers(d) ==
  IF d = "easy" THEN <<50, 200, 500>>
  ELSE IF d = "medium" THEN <<70, 150, 300>>
  ELSE <<85, 115, 140>>
areaMultipliers(d) ==
  IF d = "easy" THEN <<40, 250, 600>>
  ELSE IF d = "medium" THEN <<60, 170, 350>>
  ELSE <<80, 120, 160>>
gdpMultipliers(d) ==
  IF d = "easy" THEN <<30, 200, 700>>
  ELSE IF d = "medium" THEN <<50, 180, 400>>
  ELSE <<75, 125, 190>>

\* generatePopulationOptions(correctPop, pool)
generatePopulationOptions(correctPop, d) ==
  <<Text(formatPopulation(correctPop))>> \o
  [k \in 1..3 |-> Text(formatPopulation(FloorTimes(correctPop, populationMultipliers(d)[k])))]

\* generateAreaOptions(correctArea, pool)
generateAreaOptions(correctArea, d) ==
  <<Text(formatArea(correctArea))>> \o
  [k \in 1..3 |-> Text(formatArea(FloorTimes(correctArea, areaMultipliers(d)[k])))]

\* generateGDPOptions(correctGDP, pool)
generateGDPOptions(correctGDP, d) ==
  <<Text(formatGDP(correctGDP))>> \o
  [k \in 1..3 |-> Text(formatGDP(FloorTimes(correctGDP, gdpMultipliers(d)[k])))]

\* the sampling loop shared by the list categories:
\*   while (options.length < 4 && candidates.length > 0) {
\*     pick = candidates.splice(random idx, 1)[0];
\*     if (!options.includes(pick)) options.push(pick); }
\* The set of option arrays the loop can end with.
RECURSIVE SampleUntilFour(_, _)
SampleUntilFour(options, candidates) ==
  IF Len(options) < 4 /\ Len(candidates) > 0
    THEN UNION { SampleUntilFour(
                   IF Includes(options, Text(candidates[idx])) THEN options
                   ELSE Append(options, Text(candidates[idx])),
                   Splice(candidates, idx)) : idx \in 1..Len(candidates) }
    ELSE {options}

\* generateCapitalOptions(country, pool)
generateCapitalOptions(country, pool) ==
  LET Other(c) == c.name /= country.name /\ c.capital /= "N/A"
      others == SelectSeq(pool, Other)
      otherCapitals == [k \in 1..Len(others) |-> others[k].capital]
  IN SampleUntilFour(<<Text(country.capital)>>, otherCapitals)

\* generateCurrencyOptions(country, pool)
generateCurrencyOptions(country, pool) ==
  LET Other(c) == c.name /= country.name /\ Len(c.currencies) > 0
      others == SelectSeq(pool, Other)
      otherCurrencies == Flat([k \in 1..Len(others) |-> others[k].currencies])
  IN SampleUntilFour(<<Text(At(country.currencies, 1))>>, otherCurrencies)

\* .filter(l => l && l !== 'Unknown') and .filter(l => l !== correct)
RECURSIVE Without(_, _)
Without(arr, banned) ==
  IF arr = <<>> THEN <<>>
  ELSE (IF Head(arr) \in banned THEN <<>> ELSE <<Head(arr)>>) \o Without(Tail(arr), banned)

\* the padding loop of generateLanguageOptions (script.js 478-482); k is
\* the 1-based position of common[i]
RECURSIVE PadWithCommon(_, _, _)
PadWithCommon(options, correct, k) ==
  IF Len(options) < 4 /\ k <= Len(common)
    THEN PadWithCommon(
           IF common[k] /= correct /\ ~Includes(options, Text(common[k]))
             THEN Append(options, Text(common[k])) ELSE options,
           correct, k + 1)
    ELSE options

\* the last statement of generateLanguageOptions (script.js 485-487)
ReplaceUnknown(options, correct) ==
  IF correct = "Unknown" /\ Len(options) > 0 /\ ~Includes(options, Text("English"))
    THEN [options EXCEPT ![1] = Text("English")]
    ELSE options

\* generateLanguageOptions(country, pool)
generateLanguageOptions(country, pool) ==
  LET correct == IF Truthy(At(country.languages, 1)) THEN At(country.languages, 1)
                 ELSE "Unknown"
      start == IF correct /= "Unknown" THEN <<Text(correct)>> ELSE <<>>
      Other(c) == c.name /= country.name /\ Len(c.languages) > 0
      others == SelectSeq(pool, Other)
      otherLanguages ==
        Without(Flat([k \in 1..Len(others) |-> others[k].languages]),
                {"", Undefined, "Unknown"})
      languagePool == Without(Dedupe(otherLanguages \o common), {correct})
  IN { ReplaceUnknown(PadWithCommon(sampled, correct, 1), correct) :
         sampled \in SampleUntilFour(start, languagePool) }

\* the fallback loop of generateTimezoneOptions (script.js 527-532): a random
\* `UTC+${n}:00`, n in 0..11, is pushed unless it is an option already
RECURSIVE SynthesizeTimezones(_)
SynthesizeTimezones(options) ==
  IF Len(options) < 4
    THEN UNION { SynthesizeTimezones(Append(options, Text("UTC+" \o ToString(n) \o ":00"))) :
                   n \in { m \in 0..11 :
                             ~Includes(options, Text("UTC+" \o ToString(m) \o ":00")) } }
    ELSE {options}

\* generateTimezoneOptions(country, pool)
generateTimezoneOptions(country, pool) ==
  LET Other(c) == c.name /= country.name /\ Len(c.timezones) > 0
      others == SelectSeq(pool, Other)
      otherTimezones == Flat([k \in 1..Len(others) |-> others[k].timezones])
      allTimezones == Dedupe(otherTimezones \o commonTimezones)
  IN UNION { SynthesizeTimezones(sampled) :
               sampled \in SampleUntilFour(<<Text(At(country.timezones, 1))>>, allTimezones) }

\* { name, flag, alt } of a country
FlagOption(c) == [name |-> c.name, flag |-> c.flag, alt |-> c.flagAlt]

\* the loop of generateFlagOptions: every pick is pushed
RECURSIVE SampleFlags(_, _)
SampleFlags(options, otherCountries) ==
  IF Len(options) < 4 /\ Len(otherCountries) > 0
    THEN UNION { SampleFlags(Append(options, FlagOption(otherCountries[idx])),
                             Splice(otherCountries, idx)) : idx \in 1..Len(otherCountries) }
    ELSE {options}

\* generateFlagOptions(country, pool)
generateFlagOptions(country, pool) ==
  LET Other(c) == c.name /= country.name /\ Truthy(c.flag)
  IN SampleFlags(<<FlagOption(country)>>, SelectSeq(pool, Other))

\* the option arrays generateMultipleChoiceQuestion can receive for a type
OptionArrays(type, country, pool, d) ==
  CASE type = "population" -> {generatePopulationOptions(country.population, d)}
    [] type = "area" -> {generateAreaOptions(country.area, d)}
    [] type = "gdp" -> {generateGDPOptions(country.population * 15000, d)}
    [] type = "capital" -> generateCapitalOptions(country, pool)
    [] type = "currency" -> generateCurrencyOptions(country, pool)
    [] type = "languages" -> generateLanguageOptions(country, pool)
    [] type = "timezone" -> generateTimezoneOptions(country, pool)
    [] type = "flag" -> generateFlagOptions(country, pool)

\* correctAnswer of each case of the switch (script.js 289-346)
CorrectAnswer(type, country) ==
  CASE type = "population" -> formatPopulation(country.population)
    [] type = "area" -> formatArea(country.area)
    [] type = "gdp" -> formatGDP(country.population * 15000)
    [] type = "capital" -> country.capital
    [] type = "currency" ->
         IF Truthy(At(country.currencies, 1)) THEN At(country.currencies, 1) ELSE "Unknown"
    [] type = "languages" ->
         IF Truthy(At(country.languages, 1)) THEN At(country.languages, 1) ELSE "Unknown"
    [] type = "timezone" -> At(country.timezones, 1)
    [] type = "flag" -> country.flag

\* question of each case of the switch
QuestionText(type, country) ==
  CASE type = "population" -> "What is the approximate population of " \o country.name \o "?"
    [] type = "area" ->
         "What is the total land area of " \o country.name \o " in square kilometers?"
    [] type = "gdp" -> "What is the approximate GDP of " \o country.name \o "?"
    [] type = "capital" -> "What is the capital city of " \o country.name \o "?"
    [] type = "currency" -> "What currency is used in " \o country.name \o "?"
    [] type = "languages" -> "Which languages are spoken in " \o country.name \o "?"
    [] type = "timezone" -> "What is the time zone of " \o country.name \o "?"
    [] type = "flag" -> "What does the flag of " \o country.name \o " look like?"

\* explanation of each case of the switch
Explanation(type, country) ==
  LET correctAnswer == CorrectAnswer(type, country)
  IN CASE type = "population" ->
            country.name \o " has a population of approximately " \o correctAnswer \o "."
       [] type = "area" -> country.name \o " has a total area of " \o correctAnswer \o "."
       [] type = "gdp" ->
            country.name \o " has an estimated GDP of approximately " \o correctAnswer \o "."
       [] type = "capital" -> "The capital of " \o country.name \o " is " \o correctAnswer \o "."
       [] type = "currency" -> country.name \o " uses " \o correctAnswer \o "."
       [] type = "languages" ->
            correctAnswer \o " is one of the official languages spoken in "
              \o country.name \o "."
       [] type = "timezone" ->
            "The time zone of " \o country.name \o " is " \o correctAnswer \o "."
       [] type = "flag" -> "This is what the flag of " \o country.name \o " looks like."

\* media of the returned object: set in the flag case only, to the option
\* array as it was before the shuffle
Media(type, options) ==
  IF type = "flag" THEN [type |-> "flags", options |-> options]
  ELSE [type |-> "undefined", options |-> <<>>]

\* generateMultipleChoiceQuestion(type, pool) once country = pool[k] is
\* drawn: the objects it can return
QuestionsAbout(type, country, pool, d) ==
  LET question == QuestionText(type, country)
      correctAnswer == CorrectAnswer(type, country)
      explanation == Explanation(type, country)
  IN UNION { { [type |-> type,
                question |-> question,
                correctAnswer |-> correctAnswer,
                options |-> shuffled,
                explanation |-> explanation,
                media |-> Media(type, options),
                country |-> country.name] : shuffled \in shuffleArray(options) } :
             options \in OptionArrays(type, country, pool, d) }

\* generateMultipleChoiceQuestion(type, pool): the objects it can return
\* for a non-empty pool
generateMultipleChoiceQuestion(type, pool, d) ==
  UNION { QuestionsAbout(type, pool[k], pool, d) : k \in 1..Len(pool) }

-----------------------------------------------------------------------------
(* Session operations *)

TypeIndexes == 1..Len(questionTypes)

\* a completion test that lets one question too many through
Completed_OffByOne == questionNumber > totalQuestions

\* the completion test of nextQuestion (script.js 632)
Completed == questionNumber >= totalQuestions

\* nextQuestion().  With no country in the pool, country is undefined and
\* country.name throws after questionNumber was incremented.
NextQuestion ==
  /\ pc = "done"
  /\ IF Completed
       THEN /\ ret' = Return("nextQuestion", "", "null")
            /\ UNCHANGED <<questionNumber, currentQuestion, answeredCurrentQuestion>>
       ELSE /\ questionNumber' = questionNumber + 1
            /\ LET pool == getCountriesForDifficulty(countries, difficulty)
               IN IF Len(pool) = 0
                    THEN /\ ret' = Return("nextQuestion", "", "threw")
                         /\ UNCHANGED <<currentQuestion, answeredCurrentQuestion>>
                    ELSE /\ \E t \in TypeIndexes :
                              \E q \in generateMultipleChoiceQuestion(questionTypes[t], pool,
                                                                      difficulty) :
                                currentQuestion' = q
                         /\ answeredCurrentQuestion' = FALSE
                         /\ ret' = Return("nextQuestion", "", "question")
  /\ UNCHANGED <<countries, score, wrong, streak, totalQuestions, difficulty, apiKey,
                 enableNinja, loadVars>>

\* a bonus test that forgets the multiple-of-3 condition
StreakBonus_EveryLongStreak(newStreak) == newStreak >= 3

\* the streak bonus test (script.js 611), on the incremented streak
StreakBonus(newStreak) == newStreak >= 3 /\ newStreak % 3 = 0

\* the answers a caller can submit: the answer of each option of the
\* current question, and a string that is none of them
Answers(q) ==
  (IF q = NoQuestion THEN {}
   ELSE { OptionAnswer(q.type, q.options[k]) : k \in 1..Len(q.options) })
  \cup {"(no option)"}

\* the branch of a correct answer (script.js 608-614)
MarkCorrect ==
  /\ score' = score + 1 + (IF StreakBonus(streak + 1) THEN 1 ELSE 0)
  /\ streak' = streak + 1
  /\ wrong' = wrong

\* a wrong-answer branch that forgets to end the streak
MarkWrong_KeepsStreak ==
  /\ wrong' = wrong + 1
  /\ UNCHANGED <<streak, score>>

\* the branch of a wrong answer (script.js 615-618)
MarkWrong ==
  /\ wrong' = wrong + 1
  /\ streak' = 0
  /\ score' = score

\* checkAnswer(userAnswer) (script.js 603-626).  Without a current question,
\* reading this.currentQuestion.correctAnswer throws before anything is
\* changed.
checkAnswer(userAnswer) ==
  IF currentQuestion = NoQuestion
    THEN /\ ret' = Return("checkAnswer", userAnswer, "threw")
         /\ UNCHANGED <<score, wrong, streak, answeredCurrentQuestion>>
    ELSE LET isCorrect == userAnswer = currentQuestion.correctAnswer
         IN /\ IF isCorrect THEN MarkCorrect ELSE MarkWrong
            /\ answeredCurrentQuestion' = TRUE
            /\ ret' = Return("checkAnswer", userAnswer,
                             IF isCorrect THEN "correct" ELSE "wrong")

\* a caller of the engine submits one of the answers
CheckAnswer ==
  /\ pc = "done"
  /\ score + wrong < MaxPoints
  /\ \E userAnswer \in Answers(currentQuestion) : checkAnswer(userAnswer)
  /\ UNCHANGED <<countries, currentQuestion, questionNumber, totalQuestions, difficulty,
                 apiKey, enableNinja, loadVars>>

\* getStats().  Math.round(score / questionNumber * 100) || 0: NaN (0 / 0)
\* gives 0; score > 0 with questionNumber = 0 does not occur, checkAnswer
\* needing a question.
getStats ==
  [score |-> score, wrong |-> wrong, streak |-> streak,
   questionNumber |-> questionNumber, totalQuestions |-> totalQuestions,
   percentage |-> IF questionNumber = 0 THEN 0
                  ELSE RoundDiv(score * 100, questionNumber)]

\* the assignments of reset() (script.js 661-666)
ResetFields ==
  /\ score' = 0
  /\ wrong' = 0
  /\ streak' = 0
  /\ questionNumber' = 0
  /\ currentQuestion' = NoQuestion
  /\ answeredCurrentQuestion' = FALSE

\* reset()
Reset ==
  /\ pc = "done"
  /\ ResetFields
  /\ ret' = Return("reset", "", "void")
  /\ UNCHANGED <<countries, totalQuestions, difficulty, apiKey, enableNinja, loadVars>>

\* names every object inherits from Object.prototype: difficultySettings[name]
\* is a function (or the prototype itself) for them, which is truthy
InheritedProperties ==
  {"constructor", "toString", "toLocaleString", "valueOf", "hasOwnProperty",
   "isPrototypeOf", "propertyIsEnumerable", "__proto__"}

\* the test of setDifficulty: this.difficultySettings[level] is truthy
KnownLevel(level) == level \in DOMAIN difficultySettings \/ level \in InheritedProperties

\* the levels a caller passes to setDifficulty in the model
Levels == {"easy", "medium", "hard", "expert", "constructor"}

\* setDifficulty(level)
SetDifficulty ==
  /\ pc = "done"
  /\ \E level \in Levels :
       /\ IF KnownLevel(level)
            THEN difficulty' = level /\ ResetFields
            ELSE UNCHANGED <<difficulty, score, wrong, streak, questionNumber,
                             currentQuestion, answeredCurrentQuestion>>
       /\ ret' = Return("setDifficulty", level, "void")
  /\ UNCHANGED <<countries, totalQuestions, apiKey, enableNinja, loadVars>>

\* the country collections a session of the model starts with: what init()
\* leaves when the primary source answered for one name only, with a record
\* that carries no facts, and when the secondary source answered with no
\* populated country
SessionCollections ==
  { <<NinjaRecord(NinjaSparse, "India")>>,
    SortByPopularity(RestCountries(<<RestBouvet>>)) }

\* the engine after init() returned true with one of the given collections,
\* with the settings of the source (script.js 11-12)
AfterInit(collections) ==
  /\ Constructed
  /\ apiKey = NINJA_API_KEY
  /\ enableNinja
  /\ countries \in collections
  /\ pc = "done"
  /\ subset = <<>>
  /\ i = 0
  /\ inFlight = {}
  /\ log = <<>>
  /\ initResult = "true"
  /\ ui = NoPage

InitSession == AfterInit(SessionCollections)

\* a session at the difficulty the constructor sets
NextSession ==
  \/ NextQuestion /\ UNCHANGED ui
  \/ CheckAnswer /\ UNCHANGED ui
  \/ Reset /\ UNCHANGED ui

SpecSession == InitSession /\ [][NextSession]_vars

-----------------------------------------------------------------------------
(* Question generation over the collections init() can leave *)

\* the subsets init() can choose (script.js 66)
Subsets == { Slice0(shuffled, NINJA_MAX_INITIAL) : shuffled \in shuffleArray(countryList) }

\* one outcome for each request of the loop over names
OutcomesFor(names) ==
  { f \in [1..Len(names) -> UNION { NinjaOutcomes(names[k]) : k \in 1..Len(names) }] :
      \A k \in 1..Len(names) : f[k] \in NinjaOutcomes(names[k]) }

\* this.countries when the loop over names is over (lines 71-94)
PrimaryRecords(names, f) ==
  Flat([k \in 1..Len(names) |->
          IF f[k].kind = "ok" THEN mapNinjaCountry(f[k].body, names[k]) ELSE <<>>])

\* collections init() returns true with on the primary path (lines 105-109)
NinjaLoads ==
  UNION { { SortByPopularity(PrimaryRecords(names, f)) : f \in OutcomesFor(names) } :
          names \in Subsets } \ {<<>>}

\* collections init() returns true with after a bulk request inside the try
\* block (lines 46 / 101, then the sort)
RestLoads == { SortByPopularity(RestCountries(body)) : body \in RestBodies }

\* collections init() returns true with from its catch block (lines 113-114)
CatchLoads == { RestCountries(body) : body \in RestBodies }

LoadedCollections == NinjaLoads \cup RestLoads \cup CatchLoads

InitGen == AfterInit(LoadedCollections)

\* the first nextQuestion() of a session
FirstQuestion == questionNumber = 0 /\ NextQuestion

NextGen ==
  \/ FirstQuestion /\ UNCHANGED ui
  \/ SetDifficulty /\ UNCHANGED ui

SpecGen == InitGen /\ [][NextGen]_vars

-----------------------------------------------------------------------------
(* Claims about the generated question *)

\* the options the UI renders for a question: question.media.options for a
\* flag question, question.options otherwise (QuizUI 142-146)
Presented(q) == IF q.media.type = "flags" THEN q.media.options ELSE q.options

\* the presented options whose selection checkAnswer finds correct
CorrectOptions(q) ==
  { k \in 1..Len(Presented(q)) : OptionAnswer(q.type, Presented(q)[k]) = q.correctAnswer }

\* C1: for every question nextQuestion() produces, whatever the category,
\* the difficulty and the non-empty pool, correctAnswer matches exactly one
\* of the presented options.
C1_ExactlyOneCorrectOption ==
  currentQuestion /= NoQuestion => Cardinality(CorrectOptions(currentQuestion)) = 1

\* C2: for every question nextQuestion() produces, whatever the category and
\* the non-empty pool, options has exactly 4 entries and they are pairwise
\* distinct.
C2_FourDistinctOptions ==
  currentQuestion /= NoQuestion =>
    /\ Len(currentQuestion.options) = 4
    /\ \A j \in 1..4 : \A k \in 1..4 :
         j /= k => currentQuestion.options[j] /= currentQuestion.options[k]

-----------------------------------------------------------------------------
(* Claims about the session counters *)

\* C3: while questionNumber is below totalQuestions a nextQuestion() call
\* counts one question; once totalQuestions calls have done so every further
\* call returns none and changes no counter, getStats().questionNumber stays
\* totalQuestions; and 0 <= questionNumber <= totalQuestions in every state.
C3_SessionCompletion ==
  /\ [](0 <= questionNumber /\ questionNumber <= totalQuestions)
  /\ [][ret'.op = "nextQuestion" =>
          IF questionNumber = totalQuestions
            THEN /\ ret'.value = "null"
                 /\ getStats'.questionNumber = totalQuestions
                 /\ UNCHANGED <<score, wrong, streak, questionNumber, currentQuestion>>
            ELSE /\ ret'.value /= "null"
                 /\ questionNumber' = questionNumber + 1]_vars

\* a finished session: every call up to totalQuestions returned a question
\* and the call after them returned none
C3_Witness ==
  /\ ret = Return("nextQuestion", "", "null")
  /\ questionNumber = totalQuestions
  /\ currentQuestion /= NoQuestion

\* C4: a correct checkAnswer adds 1 to score and to streak, plus one bonus
\* point exactly when the new streak is >= 3 and a multiple of 3; so with no
\* wrong answer since the counters were 0, score = n + floor(n / 3) for the
\* n = streak correct answers given (8 after 6).
C4_StreakBonus ==
  /\ [](wrong = 0 => score = streak + (streak \div 3))
  /\ [][(ret'.op = "checkAnswer" /\ currentQuestion /= NoQuestion
          /\ ret'.arg = currentQuestion.correctAnswer) =>
          /\ streak' = streak + 1
          /\ score' = score + 1 + (IF streak' >= 3 /\ streak' % 3 = 0 THEN 1 ELSE 0)]_vars

\* six correct answers in a row from the start: score 8
C4_Witness == streak = 6 /\ wrong = 0 /\ score = 8 /\ ret.value = "correct"

\* C5: a checkAnswer whose value differs from the current question's
\* correctAnswer sets streak to 0, adds exactly 1 to wrong, and leaves score,
\* questionNumber, difficulty and the current question unchanged.
C5_WrongAnswer ==
  [][(ret'.op = "checkAnswer" /\ currentQuestion /= NoQuestion
      /\ ret'.arg /= currentQuestion.correctAnswer) =>
      /\ streak' = 0
      /\ wrong' = wrong + 1
      /\ UNCHANGED <<score, questionNumber, difficulty, currentQuestion>>]_vars

\* the one wrong answer of a session came right after a streak of three:
\* score 4 needs the bonus of a streak of 3, and the streak is 0 now
C5_Witness ==
  /\ ret.op = "checkAnswer"
  /\ ret.value = "wrong"
  /\ wrong = 1
  /\ score = 4
  /\ streak = 0

\* C6: reset(), in any reachable state, zeroes score, wrong, streak and
\* questionNumber and clears currentQuestion, leaves difficulty,
\* totalQuestions and the country collection unchanged, and the
\* nextQuestion() that follows it yields a question.
C6_ResetRestoresFreshSession ==
  [][/\ ret'.op = "reset" =>
          /\ score' = 0 /\ wrong' = 0 /\ streak' = 0 /\ questionNumber' = 0
          /\ currentQuestion' = NoQuestion
          /\ UNCHANGED <<difficulty, totalQuestions, countries>>
     /\ (ret.op = "reset" /\ ret'.op = "nextQuestion") =>
          /\ ret'.value = "question"
          /\ currentQuestion' /= NoQuestion]_vars

\* C7: setDifficulty(level) with a level other than 'easy', 'medium' and
\* 'hard' leaves difficulty, score, wrong, streak, questionNumber and
\* currentQuestion unchanged; with one of the three it sets difficulty to
\* that level and performs reset().
C7_InvalidLevelIsNoOp ==
  [][ret'.op = "setDifficulty" =>
       IF ret'.arg \in {"easy", "medium", "hard"}
         THEN /\ difficulty' = ret'.arg
              /\ score' = 0 /\ wrong' = 0 /\ streak' = 0 /\ questionNumber' = 0
              /\ currentQuestion' = NoQuestion
         ELSE UNCHANGED <<difficulty, score, wrong, streak, questionNumber,
                          currentQuestion>>]_vars

-----------------------------------------------------------------------------
(* Claims about init() *)

\* log[k] is a request sent to source src
IsRequest(k, src) == log[k].ev = "request" /\ log[k].src = src

\* log[k] is the handling of a response of source src
IsResponse(k, src) == log[k].ev = "response" /\ log[k].src = src

\* a primary-source response has added a record
PrimaryDelivered == \E k \in 1..Len(log) : IsResponse(k, "ninja") /\ log[k].records > 0

\* a bulk request of the secondary source has succeeded
SecondaryDelivered == \E k \in 1..Len(log) : IsResponse(k, "rest") /\ log[k].ok

\* C8: init() returns false whenever no primary fetch yields a record (or
\* the primary path is not taken) and no bulk request of the secondary source
\* succeeds; it returns true only if a source has delivered.
C8_FailureReported ==
  pc = "done" =>
    /\ (~PrimaryDelivered /\ ~SecondaryDelivered) => initResult = "false"
    /\ initResult = "true" => (PrimaryDelivered \/ SecondaryDelivered)

\* every name of the subset was tried without a record, then the secondary
\* source failed: init() returned false
C8_Witness ==
  /\ pc = "done"
  /\ initResult = "false"
  /\ Len(subset) = Len(countryList)
  /\ \A n \in 1..Len(subset) :
       \E k \in 1..Len(log) : IsResponse(k, "ninja") /\ log[k].name = subset[n]

\* C9: with the primary path disabled or without a key, the primary source
\* is never queried and the secondary source is; with the primary path
\* enabled and a key, the secondary source is queried only after every name
\* of the subset was attempted, only with zero records obtained, and never
\* once a record was obtained.
C9_SourceOrder ==
  IF ~enableNinja \/ apiKey = ""
    THEN /\ \A k \in 1..Len(log) : ~IsRequest(k, "ninja")
         /\ pc /= "idle" => \E k \in 1..Len(log) : IsRequest(k, "rest")
    ELSE /\ \A k \in 1..Len(log) :
              IsRequest(k, "rest") =>
                /\ \A n \in 1..Len(subset) :
                     \E j \in 1..(k - 1) : IsResponse(j, "ninja") /\ log[j].name = subset[n]
                /\ \A j \in 1..(k - 1) : IsResponse(j, "ninja") => log[j].records = 0
         /\ PrimaryDelivered => \A k \in 1..Len(log) : ~IsRequest(k, "rest")
         /\ (pc = "done" /\ ~PrimaryDelivered) => \E k \in 1..Len(log) : IsRequest(k, "rest")

\* the primary path was taken to its end, gave nothing, and the secondary
\* source then delivered
C9_Witness ==
  /\ enableNinja /\ apiKey /= ""
  /\ Len(subset) = Len(countryList)
  /\ ~PrimaryDelivered
  /\ SecondaryDelivered
  /\ initResult = "true"

\* C10: at most one primary-source request is in flight; between two
\* requests of the primary source the first was completed and a sleep of the
\* rate-limit delay has elapsed, in this order.
C10_SequentialRequests ==
  /\ Cardinality({r \in inFlight : r.src = "ninja"}) <= 1
  /\ \A j \in 1..Len(log) : \A k \in (j + 1)..Len(log) :
       (IsRequest(j, "ninja") /\ IsRequest(k, "ninja")) =>
         \E m \in (j + 1)..(k - 1) : \E n \in (m + 1)..(k - 1) :
           /\ IsResponse(m, "ninja") /\ log[m].name = log[j].name
           /\ log[n].ev = "sleep" /\ log[n].ms = NINJA_RATE_DELAY_MS

\* the last request of a full subset is in flight after the others, the
\* first of which had failed
C10_Witness ==
  /\ pc = "fetch"
  /\ i = Len(subset) - 1
  /\ i >= 1
  /\ Cardinality(inFlight) = 1
  /\ \E k \in 1..Len(log) : IsResponse(k, "ninja") /\ ~log[k].ok

\* the requests sent to the primary source, in the order of the log
PrimaryRequests ==
  LET IsPrimaryRequest(e) == e.ev = "request" /\ e.src = "ninja"
  IN SelectSeq(log, IsPrimaryRequest)

\* the primary-source responses handled among the first k events of the log
PrimaryResponsesUpTo(k) == Cardinality({ j \in 1..k : IsResponse(j, "ninja") })

\* the records those responses added
RECURSIVE PrimaryRecordsUpTo(_)
PrimaryRecordsUpTo(k) ==
  IF k = 0 THEN 0
  ELSE PrimaryRecordsUpTo(k - 1) + (IF IsResponse(k, "ninja") THEN log[k].records ELSE 0)

\* init() took the primary path and its loop is over
PrimaryLoopOver ==
  /\ enableNinja /\ apiKey /= ""
  /\ pc \in {"rest_fallback", "rest_catch", "done"}

\* C11: in the primary path a failed fetch does not abort the batch: the
\* names of the subset are requested once each, in order, all N of them by
\* the end of the loop; the records obtained before and after a failed fetch
\* are all kept; and the i-th response is followed at once by a progress
\* notification with current = i and total = N.
C11_BatchNotAborted ==
  /\ Len(PrimaryRequests) <= Len(subset)
  /\ \A k \in 1..Len(PrimaryRequests) : PrimaryRequests[k].name = subset[k]
  /\ PrimaryLoopOver =>
       /\ Len(PrimaryRequests) = Len(subset)
       /\ PrimaryResponsesUpTo(Len(log)) = Len(subset)
  /\ (enableNinja /\ apiKey /= "" /\ ~SecondaryDelivered) =>
       Len(countries) = PrimaryRecordsUpTo(Len(log))
  /\ \A k \in 1..Len(log) :
       IsResponse(k, "ninja") =>
         /\ k < Len(log)
         /\ log[k + 1].ev = "progress"
         /\ log[k + 1].current = PrimaryResponsesUpTo(k)
         /\ log[k + 1].total = Len(subset)

\* init() is over; a fetch in the middle of the batch failed, the fetches
\* before and after it gave a record each, and both records are held
C11_Witness ==
  /\ pc = "done"
  /\ Len(subset) >= 3
  /\ Len(countries) = 2
  /\ \E a \in 1..Len(log) : \E b \in (a + 1)..Len(log) : \E c \in (b + 1)..Len(log) :
       /\ IsResponse(a, "ninja") /\ log[a].records = 1
       /\ IsResponse(b, "ninja") /\ ~log[b].ok
       /\ IsResponse(c, "ninja") /\ log[c].records = 1

\* C12: whenever init() has returned true, by whichever path the data was
\* loaded, countries is sorted in descending order of popularity.
C12_SortedWhenLoaded ==
  initResult = "true" =>
    \A k \in 1..(Len(countries) - 1) :
      countries[k].popularity >= countries[k + 1].popularity

-----------------------------------------------------------------------------
(* normalizePopulation applied to the values a caller can pass *)

\* a value that is neither null, a number nor a string
ObjectValue == [type |-> "object", n |-> 0, text |-> ""]

\* the values normalizePopulation is applied to
PopulationInputs ==
  { Num(n) : n \in (0 - MaxSmallPopulation)..MaxSmallPopulation }
  \cup { Num(n) : n \in {999, 5123, 9999, 10000, 10001, 123456, 999999, 1000000,
                         1500000} }
  \cup { Str(t) : t \in {"5", "5,123", "9,999", "10,000", "1,500,000", "12 345", "-1",
                         "-12", "+7", "0", "", "abc", "n/a", "12abc"} }
  \cup { NullValue, ObjectValue }

InitNorm ==
  /\ InitLoad
  /\ apiKey = NINJA_API_KEY
  /\ enableNinja

\* this.normalizePopulation(value) is called; the engine's fields are not
\* touched
NormalizePopulation ==
  /\ \E value \in PopulationInputs :
       ret' = Return("normalizePopulation", value, normalizePopulation(value))
  /\ UNCHANGED <<engineVars, loadVars>>

NextNorm == NormalizePopulation /\ UNCHANGED ui

SpecNorm == InitNorm /\ [][NextNorm]_vars

\* the value is a number or a string that parseFloat reads as a number
IsNumeric(value) ==
  \/ value.type = "number"
  \/ value.type = "string" /\ ~parseFloat(StripSeparators(value.text)).nan

\* the number it stands for, after stripping thousands separators
NumericValue(value) ==
  IF value.type = "number" THEN value.n ELSE parseFloat(StripSeparators(value.text)).n

\* the result the tiers prescribe for a non-negative n
Tiered(n) ==
  IF n >= 1000000 THEN n
  ELSE IF n < 10 THEN n * 1000000
  ELSE IF n < 10000 THEN n * 1000
  ELSE n

\* C13: normalizePopulation returns a non-negative integer for every input,
\* 0 for a negative or non-numeric input, and for a non-negative n the value
\* of its tier: n >= 1,000,000 gives n, n < 10 gives n * 1,000,000,
\* 10 <= n < 10,000 gives n * 1,000, 10,000 <= n < 1,000,000 gives n.
C13_NormalizePopulation ==
  ret.op = "normalizePopulation" =>
    /\ ret.value >= 0
    /\ IF ~IsNumeric(ret.arg) \/ NumericValue(ret.arg) < 0
         THEN ret.value = 0
         ELSE ret.value = Tiered(NumericValue(ret.arg))

\* C14: every record the engine holds after init() returned true, mapped
\* from either source, has non-empty languages, currencies and timezones.
C14_NonEmptySequences ==
  initResult = "true" =>
    \A k \in 1..Len(countries) :
      /\ Len(countries[k].languages) > 0
      /\ Len(countries[k].currencies) > 0
      /\ Len(countries[k].timezones) > 0

-----------------------------------------------------------------------------
(* The pool of a difficulty over collections of every size *)

\* the k-th country of a bulk answer of the secondary source: population k
BulkCountry(k) ==
  [common |-> "Country " \o ToString(k), capital |-> <<"Capital " \o ToString(k)>>,
   population |-> k, area |-> k, region |-> "Oceania", languages |-> <<"English">>,
   currencies |-> <<"Dollar">>, timezones |-> <<"UTC">>,
   png |-> "", svg |-> "", alt |-> ""]

\* what loadFromRestCountries and the sort of line 106 leave of a bulk answer
\* that holds the countries 1..n: their records, the most populated first
BulkLoaded(n) == [k \in 1..n |-> RestRecord(BulkCountry(n + 1 - k))]

\* the collections init() leaves after a bulk request inside the try block
\* was answered with 0..MaxLoaded countries
BulkLoads == { BulkLoaded(n) : n \in 0..MaxLoaded }

InitPool == AfterInit(BulkLoads)

\* this.getCountriesForDifficulty() is called; no field is touched
GetCountriesForDifficulty ==
  /\ pc = "done"
  /\ ret' = Return("getCountriesForDifficulty", difficulty,
                   getCountriesForDifficulty(countries, difficulty))
  /\ UNCHANGED <<engineVars, loadVars>>

NextPool ==
  \/ GetCountriesForDifficulty /\ UNCHANGED ui
  \/ SetDifficulty /\ UNCHANGED ui

SpecPool == InitPool /\ [][NextPool]_vars

\* the cap the spec gives each level
PoolCap(d) == IF d = "easy" THEN 30 ELSE IF d = "medium" THEN 100 ELSE 200

SecondaryRequests == { k \in 1..Len(log) : IsRequest(k, "rest") }

\* C16: init() makes no retries: no name is requested from the primary source
\* more than once, and the bulk request to the secondary source is sent at
\* most once, whatever the sources answer.
C16_NoRetries ==
  /\ \A j, k \in 1..Len(log) :
       (IsRequest(j, "ninja") /\ IsRequest(k, "ninja") /\ log[j].name = log[k].name) => j = k
  /\ Cardinality(SecondaryRequests) <= 1

\* C17: currentQuestion is none exactly when no question is active: none
\* before the first nextQuestion(), the descriptor nextQuestion() returned
\* while a question is in progress, and none again once nextQuestion() has
\* returned none because questionNumber reached totalQuestions.
C17_NoneWhenNoQuestionActive ==
  /\ questionNumber = 0 => currentQuestion = NoQuestion
  /\ ret = Return("nextQuestion", "", "question") => currentQuestion /= NoQuestion
  /\ ret = Return("nextQuestion", "", "null") => currentQuestion = NoQuestion

-----------------------------------------------------------------------------
(* The page: QuizUI over the engine.  Every handler runs to completion. *)

\* questions per session of the page; the constructor sets 10 (script.js 26)
PageQuestions == 3

\* QuizUI.init() up to its await (part_000 17-48): showLoading(), on a
\* document whose Next button is in the state the HTML gives it
PageLoading(nextBtnDisabled) ==
  Page(FALSE, "loading", FALSE, <<>>, FALSE, nextBtnDisabled)

\* engine.init() has resolved: true with one of the session collections, or
\* false with no country; QuizUI.init() waits at line 48
InitUI ==
  /\ currentQuestion = NoQuestion
  /\ score = 0
  /\ wrong = 0
  /\ streak = 0
  /\ questionNumber = 0
  /\ totalQuestions = PageQuestions
  /\ difficulty = "easy"
  /\ answeredCurrentQuestion = FALSE
  /\ apiKey = NINJA_API_KEY
  /\ enableNinja = TRUE
  /\ ret = NoReturn
  /\ \/ initResult = "true" /\ countries \in SessionCollections
     \/ initResult = "false" /\ countries = <<>>
  /\ pc = "done"
  /\ subset = <<>>
  /\ i = 0
  /\ inFlight = {}
  /\ log = <<>>
  /\ \E nextBtnDisabled \in BOOLEAN : ui = PageLoading(nextBtnDisabled)

\* the answers the option buttons of a question hand to handleAnswer
\* (renderTextOptions 153-164, renderFlagOptions 174-194)
OptionButtons(q) ==
  [k \in 1..Len(Presented(q)) |-> OptionAnswer(q.type, Presented(q)[k])]

\* loadNextQuestion() once nextQuestion() returned the question q (120-127)
Rendered(u, q) ==
  [u EXCEPT !.screen = "question", !.isAnswered = FALSE,
            !.optionBtns = OptionButtons(q), !.optionsDisabled = FALSE,
            !.nextBtnDisabled = TRUE]

\* showSummary() (295-332)
Summary(u) ==
  [u EXCEPT !.screen = "summary", !.optionBtns = <<>>]

\* the page after loadNextQuestion(), given what nextQuestion() did: a
\* question is rendered, none gives the summary, and an exception leaves the
\* handler with the page as it was (112-128)
AfterLoadNextQuestion(u, outcome, q) ==
  IF outcome = "question" THEN Rendered(u, q)
  ELSE IF outcome = "null" THEN Summary(u)
  ELSE u

\* loadNextQuestion() (112-128)
LoadNextQuestion(u) ==
  /\ NextQuestion
  /\ ui' = AfterLoadNextQuestion(u, ret'.value, currentQuestion')

\* the continuation of QuizUI.init() after its await (48-61)
QuizUIInit ==
  /\ ~ui.bound
  /\ ui.screen = "loading"
  /\ pc = "done"
  /\ IF initResult /= "true"
       THEN /\ ui' = [ui EXCEPT !.screen = "error"]
            /\ UNCHANGED <<engineVars, loadVars, ret>>
       ELSE LoadNextQuestion([ui EXCEPT !.bound = TRUE])

\* a handleAnswer that locks nothing
Answered_Unlocked(u) == [u EXCEPT !.nextBtnDisabled = FALSE]

\* the page after handleAnswer() scored an answer (205-225)
Answered(u) ==
  [u EXCEPT !.isAnswered = TRUE, !.optionsDisabled = TRUE, !.nextBtnDisabled = FALSE]

\* handleAnswer(userAnswer, button) for the k-th option button (202-230);
\* when checkAnswer throws, isAnswered is set already
HandleAnswer(k) ==
  IF ui.isAnswered
    THEN UNCHANGED vars
    ELSE /\ checkAnswer(ui.optionBtns[k])
         /\ ui' = IF ret'.value = "threw" THEN [ui EXCEPT !.isAnswered = TRUE]
                  ELSE Answered(ui)
         /\ UNCHANGED <<countries, currentQuestion, questionNumber, totalQuestions,
                        difficulty, apiKey, enableNinja, loadVars>>

\* a click on an option button; a disabled button receives none
OptionClick ==
  /\ ~ui.optionsDisabled
  /\ \E k \in 1..Len(ui.optionBtns) : HandleAnswer(k)

\* a key 1..4 is pressed (88-98); click() on a disabled button does nothing
OptionKey ==
  /\ ui.bound
  /\ \E key \in 1..4 :
       IF ui.isAnswered \/ key > Len(ui.optionBtns) \/ ui.optionsDisabled
         THEN UNCHANGED vars
         ELSE HandleAnswer(key)

\* a click on the Next button, which is enabled (70, 277-279)
NextClick ==
  /\ ui.bound
  /\ ~ui.nextBtnDisabled
  /\ LoadNextQuestion(ui)

\* Enter or Space is pressed (101-106)
NextKey ==
  /\ ui.bound
  /\ IF ui.nextBtnDisabled THEN UNCHANGED vars ELSE LoadNextQuestion(ui)

\* reset() followed by nextQuestion() at difficulty d (script.js 660-667,
\* 631-641)
ResetThenNextQuestion(d) ==
  /\ score' = 0
  /\ wrong' = 0
  /\ streak' = 0
  /\ answeredCurrentQuestion' = FALSE
  /\ IF 0 >= totalQuestions
       THEN /\ questionNumber' = 0
            /\ currentQuestion' = NoQuestion
            /\ ret' = Return("nextQuestion", "", "null")
       ELSE /\ questionNumber' = 1
            /\ LET pool == getCountriesForDifficulty(countries, d)
               IN IF Len(pool) = 0
                    THEN /\ currentQuestion' = NoQuestion
                         /\ ret' = Return("nextQuestion", "", "threw")
                    ELSE /\ \E t \in TypeIndexes :
                              \E q \in generateMultipleChoiceQuestion(questionTypes[t], pool, d) :
                                currentQuestion' = q
                         /\ ret' = Return("nextQuestion", "", "question")

\* handleRestart() with the engine at difficulty d (284-290)
HandleRestart(d) ==
  /\ difficulty' = d
  /\ ResetThenNextQuestion(d)
  /\ ui' = AfterLoadNextQuestion(ui, ret'.value, currentQuestion')
  /\ UNCHANGED <<countries, totalQuestions, apiKey, enableNinja, loadVars>>

\* a click on the Restart button (75)
RestartClick ==
  /\ ui.bound
  /\ HandleRestart(difficulty)

\* the values the difficulty selector takes in the model: a level and a
\* value that is no level
SelectorValues == {"medium", "expert"}

\* the difficulty selector changes: setDifficulty(value), then
\* handleRestart() (80-84)
DifficultyChange ==
  /\ ui.bound
  /\ \E level \in SelectorValues :
       HandleRestart(IF KnownLevel(level) THEN level ELSE difficulty)

NextUI ==
  \/ QuizUIInit
  \/ OptionClick
  \/ OptionKey
  \/ NextClick
  \/ NextKey
  \/ RestartClick
  \/ DifficultyChange

SpecUI == InitUI /\ [][NextUI]_vars

\* this step invokes engine.checkAnswer
CheckAnswerInvoked ==
  /\ ret'.op = "checkAnswer"
  /\ score' /= score \/ wrong' /= wrong \/ ret'.value = "threw"

\* C18: the page prevents double answering: whatever the order of option
\* clicks, option keys, Next, Restart and difficulty changes, checkAnswer
\* is invoked only on a question that nextQuestion() returned and that has
\* not been answered since, with that question on the screen; so never
\* twice for one question, and never before the first question, after a
\* failed load or on the summary.
C18_NoDoubleAnswer ==
  [][CheckAnswerInvoked =>
       /\ currentQuestion /= NoQuestion
       /\ ~answeredCurrentQuestion
       /\ ui.screen = "question"
       /\ ret'.value /= "threw"]_vars

\* the second question of a session was answered after Next, and the page
\* is locked: the option buttons are still there
C18_Witness ==
  /\ ret.op = "checkAnswer"
  /\ questionNumber = 2
  /\ answeredCurrentQuestion
  /\ ui.isAnswered
  /\ Len(ui.optionBtns) > 0
  /\ ui.screen = "question"

\* C19: on the page, where each question is answered at most once, the
\* percentage of getStats() is a whole number from 0 to 100 in every state,
\* streaks of 3 or more correct answers included, and it is 0 while
\* questionNumber is 0.
C19_PercentageWithinRange ==
  /\ getStats.percentage \in 0..100
  /\ questionNumber = 0 => getStats.percentage = 0

====
